---- MODULE Spec2Model ----
(***************************************************************************)
(* selectNonIntercorrelated of AI4MI_features_analysis.ipynb: the greedy   *)
(* "drop one of each highly correlated pair" filter.  One call is modelled *)
(* step by step: the correlation set-up, one step per comparison of the    *)
(* pair loop, and the final comprehension over ftrs.                       *)
(*                                                                         *)
(* Numbers.  All columns hold distinct values over the same observations,  *)
(* so every Spearman coefficient is cov/CorrDen with one common CorrDen;   *)
(* corr_matrix holds the integer numerators |cov|.  mean_absolute_corr     *)
(* holds the column sums, i.e. the means scaled by the common factor       *)
(* CorrDen * (number of columns); the code only compares two means of the  *)
(* same matrix.  Arithmetic is exact (no floating-point rounding).         *)
(***************************************************************************)
EXTENDS Integers, Sequences, FiniteSets, TLC

\* Largest number of columns of df_in.
NumCols == 3

\* The number of columns of the frames of SpecWide.
WideCols == 4
\* Largest length of ftrs.
MaxFtrs == 3

\* The observations (rows of df_in): four patients.
Observations == 1 .. 4

\* The values of corr_th that are used, as exact fractions.  0.9 is the
\* value of the notebook; 3/5 is a value a Spearman coefficient of four
\* observations can take exactly.
Thresholds ==
    { [num |-> 1, den |-> 2], [num |-> 3, den |-> 5], [num |-> 9, den |-> 10] }

\* Feature names.  NumCols + 1 is never a column of df_in.
Names == 1 .. (NumCols + 1)

VARIABLES
    pc,                               \* "start", "loop", "done", "refiltered";
                                      \* "z_called", "z_indexed", "z_returned";
                                      \* "scan", "scanned"
    df_in,                            \* [columns: Seq(Names), data: name -> column]
    corr_th,                          \* member of Thresholds
    ftrs,                             \* Seq(Names), distinct
    corr_matrix,                      \* <<row, col>> -> |cov|
    mean_absolute_corr,               \* col -> column sum of corr_matrix
    high_corrs,                       \* [columns, index, notnull]
    intercorrelated_features_set,     \* Seq(Names): the drop set
    feature_pos,                      \* position in high_corrs.columns
    correlated_pos,                   \* position in correlated_with_feature
    compared,                         \* history: the comparisons made so far
    non_intercorrelated_features_set, \* the returned list
    refiltered_same,                  \* second call, same df_in
    refiltered_restricted,            \* second call, df_in[retained columns]
    data_all,                         \* [columns: Seq(Names), data: Seq(column)]
    variable_name,                    \* z_score_method: the name asked for
    index,                            \* z_score_method: 0-based column index
    outlier,                          \* z_score_method: the returned list
    feature_column,                   \* fs._feature_column
    scan_i,                           \* the scan cell: its loop variable i
    printed                           \* the scan cell: the lines printed so far

\* The state of selectNonIntercorrelated and of its calls.
filter_vars ==
    << df_in, corr_th, ftrs, corr_matrix, mean_absolute_corr, high_corrs,
       intercorrelated_features_set, feature_pos, correlated_pos, compared,
       non_intercorrelated_features_set, refiltered_same, refiltered_restricted >>

\* The state of z_score_method and of the cell that scans the features.
z_vars ==
    << data_all, variable_name, index, outlier, feature_column, scan_i, printed >>

vars == << pc, filter_vars, z_vars >>

----------------------------------------------------------------------------
\* Helpers on sequences and sums.

Range(s) == { s[i] : i \in DOMAIN s }

IsInjective(s) == \A i, j \in DOMAIN s : s[i] = s[j] => i = j

Abs(x) == IF x < 0 THEN -x ELSE x

RECURSIVE SumOver(_, _)
SumOver(f, S) ==
    IF S = {} THEN 0
    ELSE LET x == CHOOSE y \in S : TRUE
         IN  f[x] + SumOver(f, S \ {x})

----------------------------------------------------------------------------
\* df_in.corr(method='spearman').abs()

\* Ranks of a column of distinct values (1 = smallest).
Rank(col) ==
    [ i \in DOMAIN col |-> Cardinality({ j \in DOMAIN col : col[j] <= col[i] }) ]

\* n * Sum(x*y) - Sum(x) * Sum(y): the numerator of Pearson's r on the ranks.
Cov(x, y) ==
    LET n  == Cardinality(DOMAIN x)
        xy == [ i \in DOMAIN x |-> x[i] * y[i] ]
    IN  n * SumOver(xy, DOMAIN x) - SumOver(x, DOMAIN x) * SumOver(y, DOMAIN y)

\* The denominator of Pearson's r on two rank vectors of distinct values:
\* sqrt(Cov(x,x) * Cov(y,y)) = Cov(x,x), the same for every column.
CorrDen ==
    LET id == [ i \in Observations |-> i ] IN Cov(id, id)

SpearmanNum(colA, colB) == Cov(Rank(colA), Rank(colB))

CorrMatrix(df) ==
    [ p \in Range(df.columns) \X Range(df.columns) |->
        Abs(SpearmanNum(df.data[p[1]], df.data[p[2]])) ]

\* corr_matrix.mean(): one value per column (scaled, see the header).
MeanAbsoluteCorr(df, cm) ==
    [ c \in Range(df.columns) |->
        SumOver([ r \in Range(df.columns) |-> cm[<<r, c>>] ], Range(df.columns)) ]

\* A comparison that also accepts equality (">=" for ">").
ExceedsOrEqual(c, th) == c * th.den >= th.num * CorrDen

\* upper > corr_th on one entry: numerator c over CorrDen against num/den.
Exceeds(c, th) == c * th.den > th.num * CorrDen

\* The triangle with its diagonal (k=0 for k=1).
UpperWithDiagonal(df) ==
    { <<df.columns[q[1]], df.columns[q[2]]>> :
        q \in { q \in (DOMAIN df.columns) \X (DOMAIN df.columns) : q[1] <= q[2] } }

\* Both triangles (the mask transposed and added: every pair seen twice).
UpperBothTriangles(df) ==
    { <<df.columns[q[1]], df.columns[q[2]]>> :
        q \in { q \in (DOMAIN df.columns) \X (DOMAIN df.columns) : q[1] # q[2] } }

\* The triangle without its first off-diagonal (k=2 for k=1): neighbouring
\* columns are never paired.
UpperSkipAdjacent(df) ==
    { <<df.columns[q[1]], df.columns[q[2]]>> :
        q \in { q \in (DOMAIN df.columns) \X (DOMAIN df.columns) : q[1] + 1 < q[2] } }

\* np.triu(..., k=1): the cells strictly above the diagonal.
Upper(df) ==
    { <<df.columns[q[1]], df.columns[q[2]]>> :
        q \in { q \in (DOMAIN df.columns) \X (DOMAIN df.columns) : q[1] < q[2] } }

\* .dropna(how='all', axis=1).dropna(how='all', axis=0) of the table whose
\* non-null cells are notnull.
DropNa(df, notnull) ==
    [ columns |-> SelectSeq(df.columns, LAMBDA c : \E p \in notnull : p[2] = c),
      index   |-> SelectSeq(df.columns, LAMBDA r : \E p \in notnull : p[1] = r),
      notnull |-> notnull ]

\* upper.where(upper > corr_th).dropna(how='all', axis=1).dropna(how='all', axis=0)
HighCorrs(df, cm, th) == DropNa(df, { p \in Upper(df) : Exceeds(cm[p], th) })

\* Only the first correlated row (".index[...][0:1]").
FirstCorrelatedOnly(hc, feature) ==
    SubSeq(SelectSeq(hc.index, LAMBDA r : <<r, feature>> \in hc.notnull), 1, 1)

\* high_corrs[feature].index[pd.notnull(high_corrs[feature])]
CorrelatedWithFeature(hc, feature) ==
    SelectSeq(hc.index, LAMBDA r : <<r, feature>> \in hc.notnull)

----------------------------------------------------------------------------
\* The body of the inner loop.

\* The comparison turned round ("<" for ">"): the lower mean is marked.
MarkedLowerMean(feature, each_correlated_feature, mac) ==
    IF mac[feature] < mac[each_correlated_feature]
    THEN feature
    ELSE each_correlated_feature

\* The comparison with ">=" for ">": a tie marks the outer-loop feature.
MarkedTieMain(feature, each_correlated_feature, mac) ==
    IF mac[feature] >= mac[each_correlated_feature]
    THEN feature
    ELSE each_correlated_feature

\* Lines 669-674: the feature the comparison marks.
Marked(feature, each_correlated_feature, mac) ==
    IF mac[feature] > mac[each_correlated_feature]
    THEN feature
    ELSE each_correlated_feature

\* The append without its membership test.
AppendAlways(set, x) == Append(set, x)

\* "if x not in intercorrelated_features_set: append(x)"
AppendIfAbsent(set, x) ==
    IF x \in Range(set) THEN set ELSE Append(set, x)

\* The names of a set in ascending order.
RECURSIVE Sorted(_)
Sorted(S) ==
    IF S = {} THEN <<>>
    ELSE LET m == CHOOSE x \in S : \A y \in S : x <= y
         IN  <<m>> \o Sorted(S \ {m})

\* "sorted(set(ftrs) - set(intercorrelated_features_set))": the order of ftrs
\* is lost.
NonIntercorrelatedUnordered(f, set) == Sorted(Range(f) \ Range(set))

\* [e for e in ftrs if e not in intercorrelated_features_set]
NonIntercorrelated(f, set) ==
    SelectSeq(f, LAMBDA e : e \notin Range(set))

----------------------------------------------------------------------------
\* The whole call as a function of its arguments (used for a second call).

RECURSIVE PairLoop(_, _, _, _, _)
PairLoop(hc, mac, fp, cp, set) ==
    IF fp > Len(hc.columns) THEN set
    ELSE LET feature == hc.columns[fp]
             correlated_with_feature == CorrelatedWithFeature(hc, feature)
             each_correlated_feature == correlated_with_feature[cp]
             next == AppendIfAbsent(set, Marked(feature, each_correlated_feature, mac))
         IN  IF cp < Len(correlated_with_feature)
             THEN PairLoop(hc, mac, fp, cp + 1, next)
             ELSE PairLoop(hc, mac, fp + 1, 1, next)

DropSet(df, th) ==
    LET cm == CorrMatrix(df)
    IN  PairLoop(HighCorrs(df, cm, th), MeanAbsoluteCorr(df, cm), 1, 1, <<>>)

SelectNonIntercorrelated(df, f, th) == NonIntercorrelated(f, DropSet(df, th))

\* df[names]: the columns of df listed in names, in that order.
Restrict(df, names) ==
    [ columns |-> names, data |-> [ c \in Range(names) |-> df.data[c] ] ]

----------------------------------------------------------------------------
\* The arguments of the call.

\* A column: the observations' values, all distinct, the first observation's
\* below the last one's.  (Reversing the values of a column changes only the
\* sign of its coefficients, which .abs() discards, so every matrix of
\* absolute coefficients of four observations is still produced.)
ColumnValues ==
    { p \in Permutations(Observations) : p[1] < p[Cardinality(Observations)] }

\* The lists ftrs: distinct names, columns of df_in or not, in any order.
FtrsLists ==
    { f \in UNION { [1 .. n -> Names] : n \in 0 .. MaxFtrs } : IsInjective(f) }

\* The lists ftrs of the notebook's use: all the columns of df, in any order.
ColumnLists(df) ==
    { f \in [DOMAIN df.columns -> Range(df.columns)] : IsInjective(f) }

\* df_in has columns 1 .. k.  The rows are listed in ascending order of the
\* first column (a Spearman coefficient does not depend on the row order).
DataFrames ==
    UNION { { [ columns |-> [ i \in 1 .. k |-> i ], data |-> d ] :
                d \in { e \in [1 .. k -> ColumnValues] :
                          \A i \in Observations : e[1][i] = i } } :
            k \in 1 .. NumCols }

\* Frames of exactly WideCols columns, built as those of DataFrames.
WideDataFrames ==
    { [ columns |-> [ i \in 1 .. WideCols |-> i ], data |-> d ] :
        d \in { e \in [1 .. WideCols -> ColumnValues] :
                  \A i \in Observations : e[1][i] = i } }

NoHighCorrs == [ columns |-> <<>>, index |-> <<>>, notnull |-> {} ]

NoFrame == [ columns |-> <<>>, data |-> <<>> ]

\* The outlier cells are not part of a call of selectNonIntercorrelated.
ZIdle ==
    /\ data_all = NoFrame
    /\ variable_name = 0
    /\ index = 0
    /\ outlier = <<>>
    /\ feature_column = <<>>
    /\ scan_i = 0
    /\ printed = <<>>

Init ==
    /\ pc = "start"
    /\ df_in \in DataFrames
    /\ corr_th \in Thresholds
    /\ ftrs = <<>>
    /\ corr_matrix = <<>>
    /\ mean_absolute_corr = <<>>
    /\ high_corrs = NoHighCorrs
    /\ intercorrelated_features_set = <<>>
    /\ feature_pos = 1
    /\ correlated_pos = 1
    /\ compared = <<>>
    /\ non_intercorrelated_features_set = <<>>
    /\ refiltered_same = <<>>
    /\ refiltered_restricted = <<>>
    /\ ZIdle

\* The same call on a frame of WideCols columns.
InitWide ==
    /\ pc = "start"
    /\ df_in \in WideDataFrames
    /\ corr_th \in Thresholds
    /\ ftrs = <<>>
    /\ corr_matrix = <<>>
    /\ mean_absolute_corr = <<>>
    /\ high_corrs = NoHighCorrs
    /\ intercorrelated_features_set = <<>>
    /\ feature_pos = 1
    /\ correlated_pos = 1
    /\ compared = <<>>
    /\ non_intercorrelated_features_set = <<>>
    /\ refiltered_same = <<>>
    /\ refiltered_restricted = <<>>
    /\ ZIdle

\* Lines 658-662: the correlation matrix, the means, the empty drop set and
\* the table of the pairs above the threshold.
Begin ==
    /\ pc = "start"
    /\ corr_matrix' = CorrMatrix(df_in)
    /\ mean_absolute_corr' = MeanAbsoluteCorr(df_in, corr_matrix')
    /\ intercorrelated_features_set' = <<>>
    /\ high_corrs' = HighCorrs(df_in, corr_matrix', corr_th)
    /\ feature_pos' = 1
    /\ correlated_pos' = 1
    /\ pc' = "loop"
    /\ UNCHANGED << z_vars, df_in, corr_th, ftrs, compared,
                    non_intercorrelated_features_set,
                    refiltered_same, refiltered_restricted >>

\* Lines 664-674: one pass through the body of the inner loop.
Compare ==
    /\ pc = "loop"
    /\ feature_pos <= Len(high_corrs.columns)
    /\ LET feature == high_corrs.columns[feature_pos]
           correlated_with_feature == CorrelatedWithFeature(high_corrs, feature)
           each_correlated_feature == correlated_with_feature[correlated_pos]
           marked == Marked(feature, each_correlated_feature, mean_absolute_corr)
       IN  /\ intercorrelated_features_set' =
                  AppendIfAbsent(intercorrelated_features_set, marked)
           /\ compared' = Append(compared,
                  [ feature |-> feature,
                    each_correlated_feature |-> each_correlated_feature,
                    marked |-> marked ])
           /\ IF correlated_pos < Len(correlated_with_feature)
              THEN /\ correlated_pos' = correlated_pos + 1
                   /\ feature_pos' = feature_pos
              ELSE /\ correlated_pos' = 1
                   /\ feature_pos' = feature_pos + 1
    /\ UNCHANGED << z_vars, pc, df_in, corr_th, ftrs, corr_matrix, mean_absolute_corr,
                    high_corrs, non_intercorrelated_features_set,
                    refiltered_same, refiltered_restricted >>

\* Lines 676-680: the comprehension over ftrs and the return.  ftrs is an
\* argument of the call that nothing reads before line 676, so its value is
\* drawn here, where it is first read.
FilterFrom(lists) ==
    /\ pc = "loop"
    /\ feature_pos > Len(high_corrs.columns)
    /\ \E f \in lists :
          /\ ftrs' = f
          /\ non_intercorrelated_features_set' =
                 NonIntercorrelated(f, intercorrelated_features_set)
    /\ pc' = "done"
    /\ UNCHANGED << z_vars, df_in, corr_th, corr_matrix, mean_absolute_corr, high_corrs,
                    intercorrelated_features_set, feature_pos, correlated_pos,
                    compared, refiltered_same, refiltered_restricted >>

\* The call with any list of distinct names.
Filter == FilterFrom(FtrsLists)

\* The call with a list of all the columns of df_in.
FilterColumns == FilterFrom(ColumnLists(df_in))

\* The filter applied again to its own output with the same threshold: once
\* with df_in as it is, once with df_in restricted to the retained columns.
Refilter ==
    /\ pc = "done"
    /\ Range(non_intercorrelated_features_set) \subseteq Range(df_in.columns)
    /\ refiltered_same' =
           SelectNonIntercorrelated(df_in, non_intercorrelated_features_set, corr_th)
    /\ refiltered_restricted' =
           SelectNonIntercorrelated(
               Restrict(df_in, non_intercorrelated_features_set),
               non_intercorrelated_features_set, corr_th)
    /\ pc' = "refiltered"
    /\ UNCHANGED << z_vars, df_in, corr_th, ftrs, corr_matrix, mean_absolute_corr,
                    high_corrs, intercorrelated_features_set, feature_pos,
                    correlated_pos, compared, non_intercorrelated_features_set >>

Next == Begin \/ Compare \/ Filter

\* One call of selectNonIntercorrelated.
Spec == Init /\ [][Next]_vars

NextColumns == Begin \/ Compare \/ FilterColumns

\* One call with a list of all the columns (the notebook's use); the
\* properties of the pair loop, which never reads ftrs, are stated of it.
SpecColumns == Init /\ [][NextColumns]_vars

\* The call with ftrs listing all the columns of a frame of WideCols columns.
SpecWide == InitWide /\ [][NextColumns]_vars

NextRefilter == Begin \/ Compare \/ FilterColumns \/ Refilter

\* One call with a list of all the columns, then the filter applied to its output.
SpecRefilter == Init /\ [][NextRefilter]_vars

----------------------------------------------------------------------------
\* The step-by-step call returns what the one-shot function returns.
StepsAgreeWithFunction ==
    pc \in {"done", "refiltered"} =>
        /\ intercorrelated_features_set = DropSet(df_in, corr_th)
        /\ non_intercorrelated_features_set =
               SelectNonIntercorrelated(df_in, ftrs, corr_th)

----------------------------------------------------------------------------
\* z_score_method(df, variable_name) and the cell that scans the features.
\* A z-score is kept as its square in exact arithmetic: for a column of n
\* values x with sum S and sum of squares Q, stats.zscore (ddof = 0) gives
\* z(x)^2 = (n*x - S)^2 / (n*Q - S^2); a constant column has 0/0 = NaN.

\* "threshold = 3"
threshold == 3

\* "for item in range(len(columns)): if columns[item] == variable_name:
\* index = item", from item on, index being the value so far.
RECURSIVE IndexLoop(_, _, _, _)
IndexLoop(columns, name, item, idx) ==
    IF item >= Len(columns)
    THEN idx
    ELSE IndexLoop(columns, name, item + 1,
                   IF columns[item + 1] = name THEN item ELSE idx)

\* The search starting from the last column instead of the first.
ColumnIndexDefaultLast(columns, name) ==
    IndexLoop(columns, name, 0, Len(columns) - 1)

\* "index=0" and the loop: the 0-based position of the last match, 0 when
\* there is none.
ColumnIndex(columns, name) ==
    IndexLoop(columns, name, 0, 0)

\* One column of np.abs(stats.zscore(df)): the squared z-score of every row,
\* as a fraction, given the row count n, the sum S and the sum of squares Q.
ZSquaredWith(col, n, S, Q) ==
    [ r \in DOMAIN col |->
        [ num |-> (n * col[r] - S) * (n * col[r] - S), den |-> n * Q - S * S ] ]

ZSquared(col) ==
    ZSquaredWith(col, Len(col), SumOver(col, DOMAIN col),
                 SumOver([ r \in DOMAIN col |-> col[r] * col[r] ], DOMAIN col))

\* The test that also accepts equality (">=" for ">").
ExceedsThresholdOrEqual(v) ==
    v.den # 0 /\ v.num >= threshold * threshold * v.den

\* "if v > threshold" for v = |z| >= 0; False for NaN.
ExceedsThreshold(v) ==
    v.den # 0 /\ v.num > threshold * threshold * v.den

\* "for i, v in enumerate(z.iloc[:, index]): if v > threshold:
\* outlier.append(i)"
Outliers(zcol) ==
    SelectSeq([ r \in DOMAIN zcol |-> r - 1 ],
              LAMBDA i : ExceedsThreshold(zcol[i + 1]))

ZScoreMethod(df, name) ==
    Outliers(ZSquared(df.data[ColumnIndex(df.columns, name) + 1]))

\* The row counts of the frames: with 10 rows a single deviating value has
\* |z| = 3 exactly, with 19 rows two opposite deviating values both have
\* |z| > 3.
ZRowCounts == {10, 19}

\* A column of n rows: values of -1, 0 or 1 in the first two rows, 0 below.
ZColumnValues(n) ==
    { [ r \in 1 .. n |-> IF r <= 2 THEN h[r] ELSE 0 ] :
        h \in [1 .. 2 -> {-1, 0, 1}] }

\* Frames of 1 .. NumCols columns named 1 .. k.
ZFrames ==
    UNION { { [ columns |-> [ i \in 1 .. k |-> i ], data |-> d ] :
                d \in [1 .. k -> ZColumnValues(n)] } :
            <<k, n>> \in (1 .. NumCols) \X ZRowCounts }

\* selectNonIntercorrelated is not part of the outlier cells.
FilterIdle ==
    /\ df_in = NoFrame
    /\ corr_th = [num |-> 9, den |-> 10]
    /\ ftrs = <<>>
    /\ corr_matrix = <<>>
    /\ mean_absolute_corr = <<>>
    /\ high_corrs = NoHighCorrs
    /\ intercorrelated_features_set = <<>>
    /\ feature_pos = 1
    /\ correlated_pos = 1
    /\ compared = <<>>
    /\ non_intercorrelated_features_set = <<>>
    /\ refiltered_same = <<>>
    /\ refiltered_restricted = <<>>

\* One call z_score_method(df, variable_name), the name a column or not.
InitZScore ==
    /\ pc = "z_called"
    /\ data_all \in ZFrames
    /\ variable_name \in Names
    /\ index = 0
    /\ outlier = <<>>
    /\ feature_column = <<>>
    /\ scan_i = 0
    /\ printed = <<>>
    /\ FilterIdle

\* Lines 439-446: the search for the column.
FindIndex ==
    /\ pc = "z_called"
    /\ index' = ColumnIndex(data_all.columns, variable_name)
    /\ pc' = "z_indexed"
    /\ UNCHANGED << filter_vars, data_all, variable_name, outlier,
                    feature_column, scan_i, printed >>

\* Lines 447-452: the rows of that column above the threshold.
CollectOutliers ==
    /\ pc = "z_indexed"
    /\ outlier' = Outliers(ZSquared(data_all.data[index + 1]))
    /\ pc' = "z_returned"
    /\ UNCHANGED << filter_vars, data_all, variable_name, index,
                    feature_column, scan_i, printed >>

NextZScore == FindIndex \/ CollectOutliers

SpecZScore == InitZScore /\ [][NextZScore]_vars

\* The cell of lines 468-471 on a frame whose columns are the features.
InitScan ==
    /\ pc = "scan"
    /\ data_all \in ZFrames
    /\ feature_column = data_all.columns
    /\ variable_name = 0
    /\ index = 0
    /\ outlier = <<>>
    /\ scan_i = 0
    /\ printed = <<>>
    /\ FilterIdle

\* One pass of "for i in range (0, len(fs._feature_column)-1)": the call of
\* z_score_method and the print.
Scan ==
    /\ pc = "scan"
    /\ scan_i < Len(feature_column) - 1
    /\ variable_name' = feature_column[scan_i + 1]
    /\ index' = ColumnIndex(data_all.columns, variable_name')
    /\ outlier' = ZScoreMethod(data_all, variable_name')
    /\ printed' = Append(printed, [ name |-> variable_name', outlier_z |-> outlier' ])
    /\ scan_i' = scan_i + 1
    /\ UNCHANGED << pc, filter_vars, data_all, feature_column >>

\* The range is exhausted.
ScanEnd ==
    /\ pc = "scan"
    /\ ~(scan_i < Len(feature_column) - 1)
    /\ pc' = "scanned"
    /\ UNCHANGED << filter_vars, z_vars >>

NextScan == Scan \/ ScanEnd

SpecScan == InitScan /\ [][NextScan]_vars

----------------------------------------------------------------------------
\* Vocabulary of the properties.  "Above the threshold" is spelled out here
\* from corr_matrix and corr_th, not taken from the filter's own test.

Columns == Range(df_in.columns)

DropNames == Range(intercorrelated_features_set)

Retained == Range(non_intercorrelated_features_set)

\* The call has returned.
Returned == pc \in {"done", "refiltered"}

\* |corr(a, b)| > corr_th, strictly.
AboveThreshold(a, b) ==
    corr_matrix[<<a, b>>] * corr_th.den > corr_th.num * CorrDen

\* |corr(a, b)| = corr_th exactly.
AtThreshold(a, b) ==
    corr_matrix[<<a, b>>] * corr_th.den = corr_th.num * CorrDen

\* The unordered pairs of distinct columns above the threshold.
PairsAbove ==
    { {a, b} : <<a, b>> \in { p \in Columns \X Columns :
                                 p[1] # p[2] /\ AboveThreshold(p[1], p[2]) } }

\* The comparisons made so far of the pair {a, b}.
ComparisonsOf(a, b) ==
    { i \in DOMAIN compared :
        {compared[i].feature, compared[i].each_correlated_feature} = {a, b} }

\* out lists its elements in the order in which f lists them.
SameRelativeOrder(out, f) ==
    \A i, j \in DOMAIN out :
        i < j => \E p, q \in DOMAIN f : p < q /\ f[p] = out[i] /\ f[q] = out[j]

\* s is an initial part of t.
IsPrefix(s, t) == Len(s) <= Len(t) /\ SubSeq(t, 1, Len(s)) = s

----------------------------------------------------------------------------
\* C1: the returned list is ftrs with the members of the drop set removed:
\* it holds exactly the names of ftrs that are not in the drop set, in the
\* relative order of ftrs, no name twice.
C1_OutputIsFtrsWithoutDropSet ==
    Returned =>
        /\ Retained = Range(ftrs) \ DropNames
        /\ Retained \subseteq Range(ftrs)
        /\ SameRelativeOrder(non_intercorrelated_features_set, ftrs)
        /\ IsInjective(non_intercorrelated_features_set)

\* A call that removed a name of ftrs and kept two that ftrs lists in
\* descending order of name.
C1_Witness ==
    /\ pc = "done"
    /\ Range(ftrs) \cap DropNames # {}
    /\ Len(non_intercorrelated_features_set) = 2
    /\ non_intercorrelated_features_set[1] > non_intercorrelated_features_set[2]

\* C2: when no pair of distinct columns is above the threshold, the drop set
\* stays empty and the returned list equals ftrs.
C2_NoPairAboveIsNoOp ==
    (pc # "start" /\ \A a, b \in Columns : a # b => ~AboveThreshold(a, b)) =>
        /\ intercorrelated_features_set = <<>>
        /\ Returned => non_intercorrelated_features_set = ftrs

\* A call on three columns, none of whose pairs is above the threshold, with a
\* list of at least two names.
C2_Witness ==
    /\ pc = "done"
    /\ Len(df_in.columns) = 3
    /\ PairsAbove = {}
    /\ Len(ftrs) >= 2
    /\ non_intercorrelated_features_set = ftrs

\* C3: a pair whose coefficient equals the threshold is never compared and
\* marks nothing: every comparison made is of a pair strictly above the
\* threshold, and every marked feature has a partner strictly above it.
C3_BoundaryIsNotAbove ==
    pc # "start" =>
        /\ \A i \in DOMAIN compared :
              /\ AboveThreshold(compared[i].feature, compared[i].each_correlated_feature)
              /\ ~AtThreshold(compared[i].feature, compared[i].each_correlated_feature)
        /\ \A x \in DropNames :
              \E y \in Columns \ {x} : AboveThreshold(x, y)
        /\ \A a, b \in Columns :
              (a # b /\ AtThreshold(a, b)) => ComparisonsOf(a, b) = {}

\* A finished call in which a pair sits exactly on the threshold, neither of
\* its features is marked, and another pair was compared.
C3_Witness ==
    /\ pc = "done"
    /\ compared # <<>>
    /\ \E a, b \in Columns :
          /\ a # b
          /\ AtThreshold(a, b)
          /\ a \notin DropNames
          /\ b \notin DropNames

\* C4: after the call, for every pair above the threshold whose means differ,
\* the feature with the higher mean is in the drop set, and the comparison of
\* the pair (there is one) marked it and not the other.
C4_HigherMeanIsDropped ==
    Returned =>
        \A a, b \in Columns :
            ( /\ a # b
              /\ AboveThreshold(a, b)
              /\ mean_absolute_corr[a] > mean_absolute_corr[b] ) =>
                /\ a \in DropNames
                /\ ComparisonsOf(a, b) # {}
                /\ \A i \in ComparisonsOf(a, b) : compared[i].marked = a

\* A finished call with a pair above the threshold whose outer-loop feature
\* has the lower mean, and one whose outer-loop feature has the higher mean.
C4_Witness ==
    /\ pc = "done"
    /\ \E i, j \in DOMAIN compared :
          /\ mean_absolute_corr[compared[i].feature]
                 > mean_absolute_corr[compared[i].each_correlated_feature]
          /\ mean_absolute_corr[compared[j].feature]
                 < mean_absolute_corr[compared[j].each_correlated_feature]

\* C5: a comparison of two features of equal mean marks
\* each_correlated_feature, the inner-loop row feature, not the outer-loop
\* feature, and that feature is in the drop set.
C5_TieMarksCorrelatedFeature ==
    \A i \in DOMAIN compared :
        mean_absolute_corr[compared[i].feature]
            = mean_absolute_corr[compared[i].each_correlated_feature] =>
                /\ compared[i].marked = compared[i].each_correlated_feature
                /\ compared[i].marked # compared[i].feature
                /\ compared[i].each_correlated_feature \in DropNames

\* A finished call on three columns with a comparison of two features of
\* equal mean whose outer-loop feature stayed unmarked.
C5_Witness ==
    /\ pc = "done"
    /\ Len(df_in.columns) = 3
    /\ \E i \in DOMAIN compared :
          /\ mean_absolute_corr[compared[i].feature]
                 = mean_absolute_corr[compared[i].each_correlated_feature]
          /\ compared[i].feature \notin DropNames

\* C6: the filter applied to its own output with the same threshold returns
\* that output, with df_in as it is and with df_in restricted to the
\* retained columns.
C6_RefilterIsIdentity ==
    pc = "refiltered" =>
        /\ refiltered_same = non_intercorrelated_features_set
        /\ refiltered_restricted = non_intercorrelated_features_set

\* A second call after a first one that removed a feature and kept two.
C6_Witness ==
    /\ pc = "refiltered"
    /\ DropNames # {}
    /\ Len(non_intercorrelated_features_set) = 2
    /\ refiltered_restricted = non_intercorrelated_features_set

\* C7: when exactly one pair {a, b} of columns is above the threshold, the
\* call removes exactly one of a and b: the drop set holds that one feature
\* and the returned list is ftrs without it, every other name of ftrs kept.
C7_SinglePairLosesOne ==
    (Returned /\ Cardinality(PairsAbove) = 1) =>
        \E x \in UNION PairsAbove :
            /\ DropNames = {x}
            /\ non_intercorrelated_features_set = SelectSeq(ftrs, LAMBDA e : e # x)
            /\ (UNION PairsAbove \subseteq Range(ftrs) =>
                   Cardinality(UNION PairsAbove \cap Retained) = 1)

\* A finished call with one pair above the threshold, its two features of
\* equal mean, both in ftrs together with a third name.
C7_Witness ==
    /\ pc = "done"
    /\ Len(ftrs) = 3
    /\ \E a, b \in Columns :
          /\ PairsAbove = {{a, b}}
          /\ a # b
          /\ mean_absolute_corr[a] = mean_absolute_corr[b]
          /\ {a, b} \subseteq Range(ftrs)
          /\ Len(non_intercorrelated_features_set) = 2

\* C8 as stated: a one-name ftrs whose name is a column is returned
\* unchanged, whatever the threshold and the matrix.
C8_SingleFeatureAlwaysKept ==
    (Returned /\ Len(ftrs) = 1 /\ ftrs[1] \in Columns) =>
        non_intercorrelated_features_set = ftrs

\* C8, amended: a one-name ftrs whose name is a column is returned unchanged
\* when no other column of the matrix is above the threshold with it (so
\* always when the matrix has that column only).
C8_SingleFeatureKeptIfUncorrelated ==
    ( /\ Returned
      /\ Len(ftrs) = 1
      /\ ftrs[1] \in Columns
      /\ \A y \in Columns \ {ftrs[1]} : ~AboveThreshold(ftrs[1], y) ) =>
        non_intercorrelated_features_set = ftrs

\* A finished call with a one-name ftrs, its feature above the threshold with
\* no other column, while two other columns were compared.
C8_Witness ==
    /\ pc = "done"
    /\ Len(ftrs) = 1
    /\ ftrs[1] \in Columns
    /\ \A y \in Columns \ {ftrs[1]} : ~AboveThreshold(ftrs[1], y)
    /\ DropNames # {}
    /\ non_intercorrelated_features_set = ftrs

\* C9: a call whose ftrs holds a name that is no column of the matrix never
\* returns normally.
C9_AbsentNameIsRejected ==
    pc = "done" => Range(ftrs) \subseteq Columns

\* C10: the drop set only grows and never holds a name twice: every step
\* keeps the drop set as an initial part of the new one, a comparison leaves
\* the feature it marks in the drop set, and no name is in it twice.
C10_DropSetOnlyGrows ==
    /\ [](IsInjective(intercorrelated_features_set))
    /\ [][ /\ IsPrefix(intercorrelated_features_set, intercorrelated_features_set')
           /\ Len(compared') > Len(compared) =>
                  compared'[Len(compared')].marked
                      \in Range(intercorrelated_features_set') ]_vars

\* A state of the pair loop in which a comparison marked a feature that an
\* earlier comparison had marked already.
C10_Witness ==
    /\ pc = "loop"
    /\ \E i, j \in DOMAIN compared :
          /\ i < j
          /\ compared[i].marked = compared[j].marked

\* C11: after the call no pair above the threshold survives: two distinct
\* retained features that are both columns of the matrix are never above the
\* threshold with each other, and every pair above it has a member in the
\* drop set.
C11_NoPairAboveSurvives ==
    Returned =>
        /\ \A a, b \in Retained \cap Columns :
              a # b => ~AboveThreshold(a, b)
        /\ \A a, b \in Columns :
              (a # b /\ AboveThreshold(a, b)) => (a \in DropNames \/ b \in DropNames)

\* A finished call on three columns, two pairs of which are above the
\* threshold and the third is not, that retained two columns and a name that
\* is no column.
C11_Witness ==
    /\ pc = "done"
    /\ Cardinality(PairsAbove) = 2
    /\ Cardinality(Retained \cap Columns) = 2
    /\ Retained \ Columns # {}

\* C12: for every dropped feature at least one feature of the output is above
\* the threshold with it: a group of highly correlated features is never
\* removed entirely.
C12_DroppedHasRetainedPartner ==
    Returned =>
        \A d \in DropNames :
            \E r \in Retained : r \in Columns /\ AboveThreshold(d, r)

\* loser(i, j) for column i before column j: j if it has the strictly higher
\* mean, i otherwise.
Loser(i, j) ==
    IF mean_absolute_corr[j] > mean_absolute_corr[i] THEN j ELSE i

\* { loser(i, j) : i before j in column order, |corr(i, j)| > corr_th }
OneShotDropSet ==
    { Loser(df_in.columns[p[1]], df_in.columns[p[2]]) :
        p \in { q \in (DOMAIN df_in.columns) \X (DOMAIN df_in.columns) :
                  /\ q[1] < q[2]
                  /\ AboveThreshold(df_in.columns[q[1]], df_in.columns[q[2]]) } }

\* C13: the drop set does not depend on the visiting order.  Every comparison
\* is of two distinct columns above the threshold and marks the loser of the
\* pair, whatever the drop set holds by then; no pair is compared twice; and
\* once the call has returned every pair above the threshold has been compared
\* exactly once and the drop set is the one-shot set of the losers.
C13_DropSetIsOrderIndependent ==
    /\ \A k \in DOMAIN compared :
          LET f == compared[k].feature
              e == compared[k].each_correlated_feature
          IN  /\ f # e
              /\ AboveThreshold(e, f)
              /\ \E p, q \in DOMAIN df_in.columns :
                    /\ p < q
                    /\ {df_in.columns[p], df_in.columns[q]} = {e, f}
                    /\ compared[k].marked = Loser(df_in.columns[p], df_in.columns[q])
              /\ \A l \in DOMAIN compared :
                    {compared[l].feature, compared[l].each_correlated_feature} = {e, f}
                        => l = k
    /\ Returned =>
          /\ \A pr \in PairsAbove :
                \E a, b \in pr : a # b /\ Cardinality(ComparisonsOf(a, b)) = 1
          /\ Len(compared) = Cardinality(PairsAbove)
          /\ DropNames = OneShotDropSet

\* A finished call with three pairs above the threshold in which a feature
\* marked by one comparison won another one, and a comparison found a feature
\* already in the drop set.
C13_Witness ==
    /\ pc = "done"
    /\ Cardinality(PairsAbove) = 3
    /\ Cardinality(DropNames) = 2
    /\ \E k, l \in DOMAIN compared :
          /\ k # l
          /\ compared[k].marked \in
                {compared[l].feature, compared[l].each_correlated_feature}
          /\ compared[k].marked # compared[l].marked

\* C14: the Z-score scan covers every feature: when the cell has run,
\* z_score_method has been called, and its result printed, once for each name
\* in fs._feature_column.
C14_ScanCoversEveryFeature ==
    pc = "scanned" =>
        \A k \in DOMAIN feature_column :
            Cardinality({ p \in DOMAIN printed :
                            printed[p].name = feature_column[k] }) = 1

\* The rows of column col whose |z| is strictly above 3, 0-based, spelled out
\* from the values: (n*x - S)^2 > 9 * (n*Q - S^2) with a non-zero variance.
RowsAboveThree(col) ==
    LET n == Len(col)
        S == SumOver(col, DOMAIN col)
        Q == SumOver([ r \in DOMAIN col |-> col[r] * col[r] ], DOMAIN col)
    IN  { r - 1 : r \in { q \in DOMAIN col :
                            /\ n * Q - S * S > 0
                            /\ (n * col[q] - S) * (n * col[q] - S)
                                  > 9 * (n * Q - S * S) } }

StrictlyAscending(s) == \A i, j \in DOMAIN s : i < j => s[i] < s[j]

\* C15: z_score_method reports no error for an unknown column: the index
\* stays 0, which is a column of the frame, and the call returns the 0-based
\* positions, ascending, of the rows whose |z| in the first column is strictly
\* above 3, which is what it returns when the first column is named.
C15_UnknownNameReadsFirstColumn ==
    variable_name \notin Range(data_all.columns) =>
        /\ pc \in {"z_indexed", "z_returned"} =>
              index = 0 /\ index + 1 \in DOMAIN data_all.data
        /\ pc = "z_returned" =>
              /\ StrictlyAscending(outlier)
              /\ Range(outlier) = RowsAboveThree(data_all.data[1])
              /\ outlier = ZScoreMethod(data_all, data_all.columns[1])

\* A returned call for a name that is no column, on a frame of several columns
\* whose first column has two rows above 3 and whose last column has not.
C15_Witness ==
    /\ pc = "z_returned"
    /\ variable_name \notin Range(data_all.columns)
    /\ Len(data_all.columns) >= 2
    /\ outlier = <<0, 1>>
    /\ RowsAboveThree(data_all.data[Len(data_all.columns)]) # {0, 1}

====
